---- MODULE Spec2Model ----
(***************************************************************************)
(* Auction allocation engine of src/app.py: the Team / Player /           *)
(* AuctionControl rows and the request handlers that mutate them           *)
(* (auction_control, revert_unsold, pick_random_player, finalize_sale,     *)
(* mark_unsold, revert_last_sale, reset_auction).                          *)
(*                                                                         *)
(* Encodings: Python None for an id column is the integer 0 (row ids start *)
(* at 1); a string is a sequence of one-character strings; a role of None  *)
(* is the value NoneRole, which str() turns into the text "None".          *)
(***************************************************************************)
EXTENDS Integers, Sequences, FiniteSets, TLC

\* ------------------------------------------------------------------------
\* Bounds of the exploration
\* ------------------------------------------------------------------------
NumPlayers == 3
NumTeams == 2
\* the model stops submitting sales to a team whose players_count reached this
MaxCount == 3
\* the same stop for the runs that only sell, revert and reset
LedgerCap == 2
\* the roster scenario lets one team grow past the roster size
MaxRoster == 17

\* ------------------------------------------------------------------------
\* Program constants
\* ------------------------------------------------------------------------
DefaultPurse == 10000
RosterSize == 15
BasePrice == 200

None == 0
PlayerIds == 1..NumPlayers
TeamIds == 1..NumTeams
\* ids a request may name: the rows that exist and one id without a row
ArgPlayerIds == 1..(NumPlayers + 1)

\* ------------------------------------------------------------------------
\* Strings: str(), lower(), strip(), substring test
\* ------------------------------------------------------------------------
UpperLetters == <<"A","B","C","D","E","F","G","H","I","J","K","L","M",
                  "N","O","P","Q","R","S","T","U","V","W","X","Y","Z">>
LowerLetters == <<"a","b","c","d","e","f","g","h","i","j","k","l","m",
                  "n","o","p","q","r","s","t","u","v","w","x","y","z">>

LowerChar(c) ==
    IF \E i \in 1..26 : UpperLetters[i] = c
    THEN LowerLetters[CHOOSE i \in 1..26 : UpperLetters[i] = c]
    ELSE c

Lower(s) == [i \in 1..Len(s) |-> LowerChar(s[i])]

Strip(s) ==
    LET keep == {i \in 1..Len(s) : s[i] # " "}
    IN IF keep = {} THEN <<>>
       ELSE LET lo == CHOOSE i \in keep : \A j \in keep : i <= j
                hi == CHOOSE i \in keep : \A j \in keep : i >= j
            IN SubSeq(s, lo, hi)

\* Python's `sub in s`
Contains(sub, s) ==
    \E i \in 0..(Len(s) - Len(sub)) : SubSeq(s, i + 1, i + Len(sub)) = sub

NoneRole == <<"None">>
Str(v) == IF v = NoneRole THEN <<"N","o","n","e">> ELSE v

\* role texts a registration can carry (form field 'role', free text)
RoleKeeper == <<"W","i","c","k","e","t"," ","K","e","e","p","e","r">>
RoleBatter == <<"B","a","t","s","m","a","n">>
RoleAllRounder == <<"A","L","L","-","R","O","U","N","D","E","R">>
RoleBowler == <<" ","B","o","w","l","e","r"," ">>
RoleBatAll == <<"B","a","t","t","i","n","g"," ","A","l","l">>
Roles == {RoleKeeper, RoleBatter, RoleAllRounder, RoleBowler, RoleBatAll, NoneRole}

role_priority == << <<"K","e","e","p","e","r">>, <<"B","a","t">>,
                    <<"A","l","l">>, <<"B","o","w","l">> >>

\* `search_key in p_role` for every role text and every search term
RoleMatch ==
    [r \in Roles |->
        [k \in 1..Len(role_priority) |->
            Contains(Lower(role_priority[k]), Strip(Lower(Str(r))))]]

\* str(p.auction_status).lower().strip() on the status texts the code writes
StatusUpcoming == <<"U","p","c","o","m","i","n","g">>
StatusApproved == <<"A","p","p","r","o","v","e","d">>
StatusSold == <<"S","o","l","d">>
StatusUnsold == <<"U","n","s","o","l","d">>
StatusLive == <<"L","i","v","e">>
Statuses == {StatusUpcoming, StatusApproved, StatusSold, StatusUnsold}
KeySold == <<"s","o","l","d">>
KeyUnsold == <<"u","n","s","o","l","d">>
StatusKey == [s \in Statuses |-> Strip(Lower(Str(s)))]

\* requests: the sale requests in flight, each with the rows its session loaded
VARIABLES players, teams, control, last, presale, requests

vars == <<players, teams, control, last, presale, requests>>

\* ------------------------------------------------------------------------
\* Team: derived figures
\* ------------------------------------------------------------------------
purse_rem(t) == t.purse_amount - t.spent_amount

slots_left(t) == RosterSize - t.players_count

Max(a, b) == IF a >= b THEN a ELSE b

\* variant: the reserve counts the slot being filled as well
max_bid_AllSlots(t) ==
    IF slots_left(t) <= 0 THEN 0
    ELSE IF slots_left(t) = 1 THEN purse_rem(t)
    ELSE LET reserved_money == slots_left(t) * BasePrice
         IN Max(0, purse_rem(t) - reserved_money)

max_bid(t) ==
    IF slots_left(t) <= 0 THEN 0
    ELSE IF slots_left(t) = 1 THEN purse_rem(t)
    ELSE LET reserved_money == (slots_left(t) - 1) * BasePrice
         IN Max(0, purse_rem(t) - reserved_money)

\* ------------------------------------------------------------------------
\* Initial rows
\* ------------------------------------------------------------------------
NewPlayer(r) ==
    [role |-> r, auction_status |-> StatusUpcoming, sold_price |-> 0, team_id |-> None]

NewTeam ==
    [purse_amount |-> DefaultPurse, spent_amount |-> 0, players_count |-> 0]

NewControl == [status |-> "Not Started", current_player_id |-> None]

\* role texts of the registered players, in id order
MainRoles == <<RoleKeeper, RoleBatter, RoleBowler>>
RoleAssignments ==
    { <<RoleKeeper, RoleKeeper, RoleBatter>>,
      <<RoleAllRounder, RoleBatAll, RoleKeeper>>,
      <<RoleBatter, RoleBowler, NoneRole>> }

RolesOf(ra, p) == IF p <= Len(ra) THEN ra[p] ELSE RoleBowler

\* history: the last request served and its outcome; over_max_bid tells a sale
\* request whose bid was above the max_bid of the named team before the call
\* max_bid_allowed is the figure a get_max_bid request answered
Request(op, result) ==
    [op |-> op, result |-> result, over_max_bid |-> FALSE, max_bid_allowed |-> 0]
SaleRequest(result, sold_price, team) ==
    [Request("finalize_sale", result) EXCEPT !.over_max_bid = sold_price > max_bid(team)]
NoRequest == Request("none", "none")
\* two HTTP requests can be served at a time
NumRequests == 2
RequestIds == 1..NumRequests
Idle == [pc |-> "idle", player_id |-> None, team_id |-> None, sold_price |-> 0,
         team |-> NewTeam]

NoSale == [player_id |-> None, team_id |-> None, spent_amount |-> 0, players_count |-> 0,
           auction_status |-> StatusUpcoming, sold_price |-> 0, player_team_id |-> None]

InitWith(assignments) ==
    /\ \E ra \in assignments : players = [p \in PlayerIds |-> NewPlayer(RolesOf(ra, p))]
    /\ teams = [t \in TeamIds |-> NewTeam]
    /\ control = NewControl
    /\ last = NoRequest
    /\ presale = NoSale
    /\ requests = [r \in RequestIds |-> Idle]

Init == InitWith({MainRoles})

\* ------------------------------------------------------------------------
\* Selection: the copy in pick_random_player and the copy in finalize_sale
\* ------------------------------------------------------------------------
\* variant: only a Sold player is out of the fresh pool
IsClosed_SoldOnly(p) == StatusKey[p.auction_status] = KeySold
\* a player out of the fresh pool: `p_status in ['sold', 'unsold']`
IsClosed(p) == StatusKey[p.auction_status] \in {KeySold, KeyUnsold}

\* candidates of round 1 for search term k, skipping the player on screen
PickCandidates(pl, k, current_id) ==
    {p \in PlayerIds : /\ ~IsClosed(pl[p])
                       /\ p # current_id
                       /\ RoleMatch[pl[p].role][k]}

\* candidates of the auto-pick after a sale for search term k
SaleCandidates(pl, k) ==
    {p \in PlayerIds : /\ ~IsClosed(pl[p])
                       /\ RoleMatch[pl[p].role][k]}

\* variant: the loop over role_priority keeps going to the last term with a
\* candidate
FirstNonEmpty_Last(cands) ==
    LET hits == {k \in 1..Len(role_priority) : cands[k] # {}}
    IN IF hits = {} THEN {}
       ELSE cands[CHOOSE k \in hits : \A j \in hits : k >= j]

\* the candidate list at which the loop over role_priority breaks
FirstNonEmpty(cands) ==
    LET hits == {k \in 1..Len(role_priority) : cands[k] # {}}
    IN IF hits = {} THEN {}
       ELSE cands[CHOOSE k \in hits : \A j \in hits : k <= j]

\* variant: round 2 revives any player that is Sold or Unsold
UnsoldCandidates_AnyClosed(pl) == {p \in PlayerIds : IsClosed(pl[p])}
UnsoldCandidates(pl) == {p \in PlayerIds : StatusKey[pl[p].auction_status] = KeyUnsold}

\* variant: with nobody left, the screen keeps the player it shows
Advance_KeepScreen(fresh, pl, ctl, pl2, ctl2) ==
    IF fresh # {}
    THEN \E next_player \in fresh :
            /\ pl2 = pl
            /\ ctl2 = [ctl EXCEPT !.current_player_id = next_player]
    ELSE IF UnsoldCandidates(pl) # {}
    THEN \E next_player \in UnsoldCandidates(pl) :
            /\ pl2 = [pl EXCEPT ![next_player].auction_status = StatusApproved]
            /\ ctl2 = [ctl EXCEPT !.current_player_id = next_player]
    ELSE /\ pl2 = pl
         /\ ctl2 = ctl

\* variant: round 2 revives every Unsold player
Advance_ReviveAll(fresh, pl, ctl, pl2, ctl2) ==
    IF fresh # {}
    THEN \E next_player \in fresh :
            /\ pl2 = pl
            /\ ctl2 = [ctl EXCEPT !.current_player_id = next_player]
    ELSE IF UnsoldCandidates(pl) # {}
    THEN \E next_player \in UnsoldCandidates(pl) :
            /\ pl2 = [p \in PlayerIds |->
                        IF p \in UnsoldCandidates(pl)
                        THEN [pl[p] EXCEPT !.auction_status = StatusApproved]
                        ELSE pl[p]]
            /\ ctl2 = [ctl EXCEPT !.current_player_id = next_player]
    ELSE /\ pl2 = pl
         /\ ctl2 = [ctl EXCEPT !.current_player_id = None]

\* variant: with nobody left the auction is taken out of its Live status
Advance_StopsAuction(fresh, pl, ctl, pl2, ctl2) ==
    IF fresh # {}
    THEN \E next_player \in fresh :
            /\ pl2 = pl
            /\ ctl2 = [ctl EXCEPT !.current_player_id = next_player]
    ELSE IF UnsoldCandidates(pl) # {}
    THEN \E next_player \in UnsoldCandidates(pl) :
            /\ pl2 = [pl EXCEPT ![next_player].auction_status = StatusApproved]
            /\ ctl2 = [ctl EXCEPT !.current_player_id = next_player]
    ELSE /\ pl2 = pl
         /\ ctl2 = [ctl EXCEPT !.current_player_id = None, !.status = "Not Started"]

\* rounds 1 and 2 and the write of current_player_id, from fresh candidates
\* `fresh`: pl, ctl before and pl2, ctl2 after
Advance(fresh, pl, ctl, pl2, ctl2) ==
    IF fresh # {}
    THEN \E next_player \in fresh :
            /\ pl2 = pl
            /\ ctl2 = [ctl EXCEPT !.current_player_id = next_player]
    ELSE IF UnsoldCandidates(pl) # {}
    THEN \E next_player \in UnsoldCandidates(pl) :
            /\ pl2 = [pl EXCEPT ![next_player].auction_status = StatusApproved]
            /\ ctl2 = [ctl EXCEPT !.current_player_id = next_player]
    ELSE /\ pl2 = pl
         /\ ctl2 = [ctl EXCEPT !.current_player_id = None]

PickFresh(pl, ctl) ==
    FirstNonEmpty([k \in 1..Len(role_priority) |-> PickCandidates(pl, k, ctl.current_player_id)])

\* variant: the auto-pick after a sale looks at the first search term only
SaleFresh_FirstTerm(pl) == SaleCandidates(pl, 1)
SaleFresh(pl) ==
    FirstNonEmpty([k \in 1..Len(role_priority) |-> SaleCandidates(pl, k)])

\* body of pick_random_player run on rows pl, ctl
PickBody(pl, ctl, pl2, ctl2) == Advance(PickFresh(pl, ctl), pl, ctl, pl2, ctl2)

\* ------------------------------------------------------------------------
\* Request handlers
\* ------------------------------------------------------------------------
pick_random_player ==
    /\ PickBody(players, control, players', control')
    /\ UNCHANGED teams
    /\ last' = Request("pick_random_player", "ok")
    /\ presale' = NoSale

\* int(request.form.get('sold_price')), 0 when the field does not parse
ParsePrice(raw) == IF raw.numeric THEN raw.value ELSE 0

\* variant: the bid is compared with the purse left, the reserve is forgotten
BudgetExceeded_NoReserve(sold_price, team) == sold_price > purse_rem(team)

BudgetExceeded(sold_price, team) == sold_price > max_bid(team)

\* the sale written to the player row and to the team row
MarkSold(player, team_id, sold_price) ==
    [player EXCEPT !.auction_status = StatusSold,
                   !.sold_price = sold_price,
                   !.team_id = team_id]

Charge(team, sold_price) ==
    [team EXCEPT !.spent_amount = @ + sold_price,
                 !.players_count = @ + 1]

finalize_sale(player_id, team_id, raw) ==
    LET sold_price == ParsePrice(raw) IN
    IF player_id \in PlayerIds /\ team_id \in TeamIds
    THEN IF BudgetExceeded(sold_price, teams[team_id])
         THEN /\ UNCHANGED <<players, teams, control>>
              /\ last' = SaleRequest("budget", sold_price, teams[team_id])
              /\ presale' = NoSale
         ELSE LET sold == [players EXCEPT ![player_id] = MarkSold(@, team_id, sold_price)]
              IN /\ teams' = [teams EXCEPT ![team_id] = Charge(@, sold_price)]
                 /\ Advance(SaleFresh(sold), sold, control, players', control')
                 /\ last' = SaleRequest("ok", sold_price, teams[team_id])
                 /\ presale' = [player_id |-> player_id, team_id |-> team_id,
                                spent_amount |-> teams[team_id].spent_amount,
                                players_count |-> teams[team_id].players_count,
                                auction_status |-> players[player_id].auction_status,
                                sold_price |-> players[player_id].sold_price,
                                player_team_id |-> players[player_id].team_id]
    ELSE /\ UNCHANGED <<players, teams, control>>
         /\ last' = Request("finalize_sale", "notfound")
         /\ presale' = NoSale

\* variant: the selection after the marking never revives an Unsold player
mark_unsold_NoRevival(player_id) ==
    /\ IF player_id \in PlayerIds
       THEN LET marked == [players EXCEPT ![player_id].auction_status = StatusUnsold] IN
            /\ IF PickFresh(marked, control) # {}
               THEN PickBody(marked, control, players', control')
               ELSE /\ players' = marked
                    /\ control' = [control EXCEPT !.current_player_id = None]
            /\ last' = Request("mark_unsold", "ok")
       ELSE /\ UNCHANGED <<players, control>>
            /\ last' = Request("mark_unsold", "notfound")
    /\ UNCHANGED teams
    /\ presale' = NoSale

mark_unsold(player_id) ==
    /\ IF player_id \in PlayerIds
       THEN /\ PickBody([players EXCEPT ![player_id].auction_status = StatusUnsold],
                        control, players', control')
            /\ last' = Request("mark_unsold", "ok")
       ELSE /\ UNCHANGED <<players, control>>
            /\ last' = Request("mark_unsold", "notfound")
    /\ UNCHANGED teams
    /\ presale' = NoSale

\* variant: the refund leaves players_count alone
Refund_KeepCount(team, player) ==
    [team EXCEPT !.spent_amount = @ - player.sold_price]

\* the refund written to the team row and the row of the reverted player
Refund(team, player) ==
    [team EXCEPT !.spent_amount = @ - player.sold_price,
                 !.players_count = @ - 1]

Unsell(player) ==
    [player EXCEPT !.auction_status = StatusUpcoming,
                   !.sold_price = 0,
                   !.team_id = None]

\* variant: the revert does not look at the status of the player
revert_last_sale_AnyStatus(player_id) ==
    /\ IF player_id \in PlayerIds
       THEN LET player == players[player_id] IN
            /\ teams' = IF player.team_id \in TeamIds
                        THEN [teams EXCEPT ![player.team_id] = Refund(@, player)]
                        ELSE teams
            /\ players' = [players EXCEPT ![player_id] = Unsell(@)]
            /\ last' = Request("revert_last_sale", "ok")
       ELSE /\ UNCHANGED <<players, teams>>
            /\ last' = Request("revert_last_sale", "rejected")
    /\ UNCHANGED control
    /\ presale' = IF last.op = "finalize_sale" /\ last.result = "ok"
                     /\ presale.player_id = player_id
                  THEN presale ELSE NoSale

revert_last_sale(player_id) ==
    /\ IF player_id \in PlayerIds /\ players[player_id].auction_status = StatusSold
       THEN LET player == players[player_id] IN
            /\ teams' = IF player.team_id \in TeamIds
                        THEN [teams EXCEPT ![player.team_id] = Refund(@, player)]
                        ELSE teams
            /\ players' = [players EXCEPT ![player_id] = Unsell(@)]
            /\ last' = Request("revert_last_sale", "ok")
       ELSE /\ UNCHANGED <<players, teams>>
            /\ last' = Request("revert_last_sale", "rejected")
    /\ UNCHANGED control
    /\ presale' = IF last.op = "finalize_sale" /\ last.result = "ok"
                     /\ presale.player_id = player_id
                  THEN presale ELSE NoSale

\* variant: the revert also takes the player shown off the screen
revert_unsold_ClearScreen(player_id) ==
    /\ IF player_id \in PlayerIds /\ players[player_id].auction_status = StatusUnsold
       THEN /\ players' = [players EXCEPT ![player_id].auction_status = StatusApproved]
            /\ control' = [control EXCEPT !.current_player_id = None]
            /\ last' = Request("revert_unsold", "ok")
       ELSE /\ UNCHANGED <<players, control>>
            /\ last' = Request("revert_unsold", "rejected")
    /\ UNCHANGED teams
    /\ presale' = NoSale

revert_unsold(player_id) ==
    /\ IF player_id \in PlayerIds /\ players[player_id].auction_status = StatusUnsold
       THEN /\ players' = [players EXCEPT ![player_id].auction_status = StatusApproved]
            /\ last' = Request("revert_unsold", "ok")
       ELSE /\ UNCHANGED players
            /\ last' = Request("revert_unsold", "rejected")
    /\ UNCHANGED <<teams, control>>
    /\ presale' = NoSale

\* variant: another secret is the one accepted
ResetPassword_Other == "reset"
ResetPassword == "RESET2026"

ResetTeam(team) == [team EXCEPT !.spent_amount = 0, !.players_count = 0]

\* variant: the reset forgets the team reference
ResetPlayer_KeepTeam(player) ==
    [player EXCEPT !.auction_status = StatusUpcoming,
                   !.sold_price = 0]

ResetPlayer(player) ==
    [player EXCEPT !.auction_status = StatusUpcoming,
                   !.team_id = None,
                   !.sold_price = 0]

reset_auction(password) ==
    /\ IF password # ResetPassword
       THEN /\ UNCHANGED <<players, teams, control>>
            /\ last' = Request("reset_auction", "password")
       ELSE /\ teams' = [t \in TeamIds |-> ResetTeam(teams[t])]
            /\ players' = [p \in PlayerIds |-> ResetPlayer(players[p])]
            /\ control' = [control EXCEPT !.status = "Not Started"]
            /\ last' = Request("reset_auction", "ok")
    /\ presale' = NoSale

\* variant: resume also asks for the next player
auction_control_ResumePicks(action) ==
    /\ IF action = "start"
       THEN LET started == [control EXCEPT !.status = "Live"] IN
            IF ~\E p \in PlayerIds : players[p].auction_status = StatusLive
            THEN /\ PickBody(players, started, players', control')
                 /\ last' = Request(action, "picked")
            ELSE /\ control' = started
                 /\ UNCHANGED players
                 /\ last' = Request(action, "ok")
       ELSE IF action = "resume"
       THEN /\ PickBody(players, [control EXCEPT !.status = "Live"], players', control')
            /\ last' = Request(action, "ok")
       ELSE /\ IF action = "pause"
               THEN control' = [control EXCEPT !.status = "Paused"]
               ELSE UNCHANGED control
            /\ UNCHANGED players
            /\ last' = Request(action, "ok")
    /\ UNCHANGED teams
    /\ presale' = NoSale

auction_control(action) ==
    /\ IF action = "start"
       THEN LET started == [control EXCEPT !.status = "Live"] IN
            IF ~\E p \in PlayerIds : players[p].auction_status = StatusLive
            THEN /\ PickBody(players, started, players', control')
                 /\ last' = Request(action, "picked")
            ELSE /\ control' = started
                 /\ UNCHANGED players
                 /\ last' = Request(action, "ok")
       ELSE /\ IF action = "pause"
               THEN control' = [control EXCEPT !.status = "Paused"]
               ELSE IF action = "resume"
               THEN control' = [control EXCEPT !.status = "Live"]
               ELSE UNCHANGED control
            /\ UNCHANGED players
            /\ last' = Request(action, "ok")
    /\ UNCHANGED teams
    /\ presale' = NoSale

get_max_bid(team_id) ==
    /\ last' = IF team_id \in TeamIds
               THEN [Request("get_max_bid", "ok") EXCEPT
                        !.max_bid_allowed = max_bid(teams[team_id])]
               ELSE [Request("get_max_bid", "notfound") EXCEPT !.max_bid_allowed = 0]
    /\ presale' = NoSale
    /\ UNCHANGED <<players, teams, control>>

\* finalize_sale served by two workers at once. No lock is taken and the reads
\* of db.session.get run outside a transaction, so a request can load its rows
\* while another request stands between its own load and its commit.
\* LoadSale: the form is parsed and the player and team rows are loaded.
LoadSale(r, player_id, team_id, raw) ==
    /\ requests[r].pc = "idle"
    /\ player_id \in PlayerIds /\ team_id \in TeamIds
    /\ requests' = [requests EXCEPT ![r] =
                      [pc |-> "loaded", player_id |-> player_id, team_id |-> team_id,
                       sold_price |-> ParsePrice(raw), team |-> teams[team_id]]]
    /\ UNCHANGED <<players, teams, control, last, presale>>

\* CommitSale: the budget test on the loaded team row, then the sale computed
\* from the loaded row is written and the next player is chosen.
CommitSale(r) ==
    LET req == requests[r] IN
    /\ req.pc = "loaded"
    /\ requests' = [requests EXCEPT ![r].pc = "done"]
    /\ IF BudgetExceeded(req.sold_price, req.team)
       THEN /\ UNCHANGED <<players, teams, control>>
            /\ last' = SaleRequest("budget", req.sold_price, req.team)
            /\ presale' = NoSale
       ELSE LET sold == [players EXCEPT ![req.player_id] =
                            MarkSold(@, req.team_id, req.sold_price)]
            IN /\ teams' = [teams EXCEPT ![req.team_id] = Charge(req.team, req.sold_price)]
               /\ Advance(SaleFresh(sold), sold, control, players', control')
               /\ last' = SaleRequest("ok", req.sold_price, req.team)
               /\ presale' = NoSale

\* ------------------------------------------------------------------------
\* Requests the environment submits
\* ------------------------------------------------------------------------
Number(n) == [numeric |-> TRUE, value |-> n]
NotANumber == [numeric |-> FALSE, value |-> 0]
\* values of the form field sold_price
PriceFields == {Number(0), Number(200), Number(8000), NotANumber}
LedgerPrices == {Number(-200), Number(0), Number(200)}
Passwords == {"RESET2026", "reset"}
ControlActions == {"start", "pause", "resume", "stop"}

\* sales the environment submits: to teams tids, at prices raws, and only to a
\* team that holds fewer than cap players
Sales(tids, raws, cap) ==
    \E player_id \in ArgPlayerIds, team_id \in tids, raw \in raws :
        /\ team_id \in TeamIds => teams[team_id].players_count < cap
        /\ finalize_sale(player_id, team_id, raw)

\* a team id without a row
UnknownTeam == NumTeams + 1

Next ==
    \/ (\E action \in ControlActions : auction_control(action)) /\ UNCHANGED requests
    \/ (\E player_id \in ArgPlayerIds : revert_unsold(player_id)) /\ UNCHANGED requests
    \/ pick_random_player /\ UNCHANGED requests
    \/ Sales({1, UnknownTeam}, PriceFields, MaxCount) /\ UNCHANGED requests
    \/ (\E player_id \in ArgPlayerIds : mark_unsold(player_id)) /\ UNCHANGED requests
    \/ (\E player_id \in ArgPlayerIds : revert_last_sale(player_id)) /\ UNCHANGED requests
    \/ (\E password \in Passwords : reset_auction(password)) /\ UNCHANGED requests

Spec == Init /\ [][Next]_vars

\* sales and reverts only
SaleNext ==
    \/ Sales(TeamIds, LedgerPrices, LedgerCap) /\ UNCHANGED requests
    \/ (\E player_id \in PlayerIds : revert_last_sale(player_id)) /\ UNCHANGED requests

SaleSpec == Init /\ [][SaleNext]_vars

\* sales, reverts and resets
LedgerNext ==
    \/ Sales(TeamIds, LedgerPrices, LedgerCap) /\ UNCHANGED requests
    \/ (\E player_id \in PlayerIds : revert_last_sale(player_id)) /\ UNCHANGED requests
    \/ reset_auction(ResetPassword) /\ UNCHANGED requests

LedgerSpec == Init /\ [][LedgerNext]_vars

\* one team bought for until its roster is past the roster size
RosterNext ==
    \/ Sales({1}, {Number(0)}, MaxRoster) /\ UNCHANGED requests
    \/ (\E player_id \in PlayerIds : revert_last_sale(player_id)) /\ UNCHANGED requests

RosterSpec == Init /\ [][RosterNext]_vars

\* team rows in the middle of an auction: what is spent and how many are bought
SpentAmounts == {-200, 0, 7000, 9000, 9800, 10200}
PlayersCounts == {0, 12, 13, 14, 15, 16}
TeamRows ==
    {[purse_amount |-> DefaultPurse, spent_amount |-> s, players_count |-> c] :
        s \in SpentAmounts, c \in PlayersCounts}

MaxBidInit ==
    /\ players = [p \in PlayerIds |-> NewPlayer(RolesOf(MainRoles, p))]
    /\ teams \in [TeamIds -> TeamRows]
    /\ control = NewControl
    /\ last = NoRequest
    /\ presale = NoSale
    /\ requests = [r \in RequestIds |-> Idle]

\* the bid limit asked for, for teams in any such state
MaxBidNext ==
    (\E team_id \in TeamIds \cup {UnknownTeam} : get_max_bid(team_id)) /\ UNCHANGED requests

MaxBidSpec == MaxBidInit /\ [][MaxBidNext]_vars

\* two sale requests in flight at once, each for a bid of 200 or for the whole
\* max_bid of a new team
ConcurrentPrices == {Number(200), Number(DefaultPurse - (RosterSize - 1) * BasePrice)}
ConcurrentNext ==
    \/ \E r \in RequestIds, player_id \in PlayerIds, team_id \in TeamIds,
          raw \in ConcurrentPrices : LoadSale(r, player_id, team_id, raw)
    \/ \E r \in RequestIds : CommitSale(r)

ConcurrentSpec == Init /\ [][ConcurrentNext]_vars

\* an auction over players whose role texts match one search term, several or
\* none: shown, skipped, sold at the base price, marked Unsold, revived
SelectionInit == InitWith(RoleAssignments)
SelectionNext ==
    \/ (\E action \in ControlActions : auction_control(action)) /\ UNCHANGED requests
    \/ pick_random_player /\ UNCHANGED requests
    \/ Sales({1}, {Number(BasePrice)}, MaxCount) /\ UNCHANGED requests
    \/ (\E player_id \in PlayerIds : mark_unsold(player_id)) /\ UNCHANGED requests
    \/ (\E player_id \in PlayerIds : revert_unsold(player_id)) /\ UNCHANGED requests

SelectionSpec == SelectionInit /\ [][SelectionNext]_vars

\* sales at bids that are not negative (nothing, the base price, and the whole
\* max_bid of a team that has bought one player for nothing), reverts, resets
ReservePrices ==
    {Number(0), Number(BasePrice), Number(DefaultPurse - (RosterSize - 2) * BasePrice)}
ReserveNext ==
    \/ Sales(TeamIds, ReservePrices, LedgerCap) /\ UNCHANGED requests
    \/ (\E player_id \in PlayerIds : revert_last_sale(player_id)) /\ UNCHANGED requests
    \/ reset_auction(ResetPassword) /\ UNCHANGED requests

ReserveSpec == Init /\ [][ReserveNext]_vars

\* an auction run by sales alone: start, then each player on display is sold,
\* for every way of giving the players role texts that match a search term
CategoryRoles == Roles \ {NoneRole}
SaleOnlyInit == InitWith([PlayerIds -> CategoryRoles])
SaleOnlyNext ==
    \/ /\ last.op = "none"
       /\ auction_control("start")
       /\ UNCHANGED requests
    \/ /\ last.op # "none"
       /\ control.current_player_id # None
       /\ \E team_id \in TeamIds, raw \in PriceFields :
             finalize_sale(control.current_player_id, team_id, raw)
       /\ last'.result = "ok"
       /\ UNCHANGED requests

SaleOnlySpec == SaleOnlyInit /\ [][SaleOnlyNext]_vars

\* ------------------------------------------------------------------------
\* Properties
\* ------------------------------------------------------------------------
IsSold(p) == players[p].auction_status = StatusSold
IsUnsold(p) == players[p].auction_status = StatusUnsold

SoldOf(t) == {p \in PlayerIds : IsSold(p) /\ players[p].team_id = t}

RECURSIVE SumPrices(_)
SumPrices(S) ==
    IF S = {} THEN 0
    ELSE LET p == CHOOSE x \in S : TRUE
         IN players[p].sold_price + SumPrices(S \ {p})

\* C1: ledger invariant: for every team T the sold prices of the players that
\* are Sold to T add up to T.spent_amount, after every sale and every revert.
C1_Ledger ==
    \A t \in TeamIds : SumPrices(SoldOf(t)) = teams[t].spent_amount

\* C2: roster invariant: for every team T, T.players_count is the number of
\* players that are Sold to T.
C2_Roster ==
    \A t \in TeamIds : teams[t].players_count = Cardinality(SoldOf(t))

Rows == <<players, teams, control>>

\* C3: budget guard: a finalize_sale whose bid is above the team's max_bid, as
\* computed before the call, is not accepted and leaves every player row, every
\* team row and the auction state as they were.
C3_BudgetGuard ==
    [][(last'.op = "finalize_sale" /\ last'.over_max_bid)
          => (last'.result # "ok" /\ Rows' = Rows)]_vars

C3_Witness ==
    /\ last.op = "finalize_sale"
    /\ last.over_max_bid

\* a revert_last_sale(p) that directly followed an accepted finalize_sale(p, t, bid)
\* of a player p that was neither Sold nor Unsold
RevertedSale ==
    /\ last.op = "revert_last_sale"
    /\ last.result = "ok"
    /\ presale.player_id # None
    /\ presale.auction_status \notin {StatusSold, StatusUnsold}

TeamRestored ==
    /\ teams[presale.team_id].spent_amount = presale.spent_amount
    /\ teams[presale.team_id].players_count = presale.players_count

\* C4 as stated: revert is the exact inverse of a sale: finalize_sale(p, t, bid)
\* followed by revert_last_sale(p) restores t.spent_amount, t.players_count and
\* p's status, sold_price and team reference, whether p was Upcoming or Approved.
C4_RevertExact ==
    RevertedSale =>
        /\ TeamRestored
        /\ players[presale.player_id].auction_status = presale.auction_status
        /\ players[presale.player_id].sold_price = presale.sold_price
        /\ players[presale.player_id].team_id = presale.player_team_id

\* C4 as amended: finalize_sale(p, t, bid) followed by revert_last_sale(p)
\* restores t.spent_amount and t.players_count and leaves p Upcoming with
\* sold_price 0 and no team; these are p's pre-sale values when p was Upcoming.
C4_RevertRestores ==
    RevertedSale =>
        /\ TeamRestored
        /\ players[presale.player_id].auction_status = StatusUpcoming
        /\ players[presale.player_id].sold_price = 0
        /\ players[presale.player_id].team_id = None
        /\ presale.auction_status = StatusUpcoming =>
              /\ presale.sold_price = 0
              /\ presale.player_team_id = None

C4_Witness ==
    /\ RevertedSale
    /\ presale.auction_status = StatusApproved
    /\ teams[presale.team_id].players_count > 0

\* C5: roster cap: every team has 0 <= players_count <= 15 after every
\* operation.
C5_RosterCap ==
    \A t \in TeamIds :
        /\ 0 <= teams[t].players_count
        /\ teams[t].players_count <= RosterSize

\* C6: purse bound: every team has 0 <= spent_amount <= purse_amount after
\* every sale, revert and reset.
C6_PurseBound ==
    \A t \in TeamIds :
        /\ 0 <= teams[t].spent_amount
        /\ teams[t].spent_amount <= teams[t].purse_amount

\* C7: player invariant: for every player, sold_price > 0, status = Sold and
\* team reference present are all true or all false.
C7_PlayerInvariant ==
    \A p \in PlayerIds :
        /\ (players[p].sold_price > 0) <=> IsSold(p)
        /\ IsSold(p) <=> (players[p].team_id # None)

\* the category the selection policy stops at on rows pl with player `shown`
\* on display: the first search term with a candidate that is neither Sold nor
\* Unsold and is not the displayed player; 0 when there is none
FirstCategory(pl, shown) ==
    LET hits == {k \in 1..Len(role_priority) : PickCandidates(pl, k, shown) # {}}
    IN IF hits = {} THEN 0 ELSE CHOOSE k \in hits : \A j \in hits : k <= j

InFirstCategory(pl, shown, chosen) ==
    FirstCategory(pl, shown) # 0 =>
        /\ chosen \in PlayerIds
        /\ RoleMatch[pl[chosen].role][FirstCategory(pl, shown)]

\* C8: role priority: a selection run by pick_random_player or by finalize_sale
\* chooses a player of the first category, in the order Keeper, Batter,
\* All-rounder, Bowler, that has a candidate (so a keeper whenever a keeper
\* candidate exists).
C8_RolePriority ==
    [][/\ pick_random_player =>
            InFirstCategory(players, control.current_player_id,
                            control'.current_player_id)
       /\ \A player_id \in PlayerIds, team_id \in TeamIds, raw \in PriceFields :
            (finalize_sale(player_id, team_id, raw) /\ last'.result = "ok") =>
                InFirstCategory(
                    [players EXCEPT ![player_id] =
                        MarkSold(@, team_id, ParsePrice(raw))],
                    control.current_player_id, control'.current_player_id)]_vars

SelectionRan ==
    \/ last.op = "pick_random_player"
    \/ last.op = "start" /\ last.result = "picked"
    \/ last.op \in {"finalize_sale", "mark_unsold"} /\ last.result = "ok"

\* C9: selection exhaustion: a selection that ran with every player Sold
\* leaves no current player.
C9_Exhaustion ==
    (SelectionRan /\ \A p \in PlayerIds : IsSold(p))
        => control.current_player_id = None

C9_Witness ==
    /\ last.op = "finalize_sale"
    /\ last.result = "ok"
    /\ \A p \in PlayerIds : IsSold(p)
    /\ control.current_player_id = None

\* C10: reset completeness: after a reset with the right password no player is
\* Sold or Unsold, every player has sold_price 0 and no team, and every team
\* has spent_amount 0 and players_count 0.
C10_ResetComplete ==
    (last.op = "reset_auction" /\ last.result = "ok") =>
        /\ \A p \in PlayerIds :
              /\ ~IsSold(p) /\ ~IsUnsold(p)
              /\ players[p].sold_price = 0
              /\ players[p].team_id = None
        /\ \A t \in TeamIds :
              /\ teams[t].spent_amount = 0
              /\ teams[t].players_count = 0

\* a reset during a running auction: the screen still names a player
C10_Witness ==
    /\ last.op = "reset_auction"
    /\ last.result = "ok"
    /\ control.current_player_id # None

\* C11: reset clears the auction state: after a reset with the right password
\* the auction status is Not Started and there is no current player.
C11_ResetClearsControl ==
    (last.op = "reset_auction" /\ last.result = "ok") =>
        /\ control.status = "Not Started"
        /\ control.current_player_id = None

\* max_bid as the data model states it
StatedMaxBid(purse_remaining, slots) ==
    IF slots <= 0 THEN 0
    ELSE IF slots = 1 THEN purse_remaining
    ELSE IF purse_remaining - 200 * (slots - 1) >= 0
         THEN purse_remaining - 200 * (slots - 1)
         ELSE 0

\* C12: max_bid formula: the max_bid answered for a team is 0 if slots_left <= 0,
\* purse_remaining if slots_left = 1, else max(0, purse_remaining -
\* 200 * (slots_left - 1)), with purse_remaining = purse_amount - spent_amount
\* and slots_left = 15 - players_count; with purse_remaining 1000 it is 1000 for
\* one slot left, 600 for three and 0 for none.
C12_MaxBidFormula ==
    [][\A team_id \in TeamIds :
          (last'.op = "get_max_bid" /\ get_max_bid(team_id)) =>
              LET team == teams[team_id]
                  purse_remaining == team.purse_amount - team.spent_amount
                  slots == 15 - team.players_count
              IN /\ last'.max_bid_allowed = StatedMaxBid(purse_remaining, slots)
                 /\ (purse_remaining = 1000 /\ slots = 1) => last'.max_bid_allowed = 1000
                 /\ (purse_remaining = 1000 /\ slots = 3) => last'.max_bid_allowed = 600
                 /\ (purse_remaining = 1000 /\ slots = 0) => last'.max_bid_allowed = 0]_vars

C12_Witness ==
    /\ last.op = "get_max_bid"
    /\ last.max_bid_allowed = 600
    /\ \E t \in TeamIds : purse_rem(teams[t]) = 1000 /\ slots_left(teams[t]) = 3

\* C13: double sale: a finalize_sale of a player that is already Sold or Unsold
\* is not accepted.
C13_NoDoubleSale ==
    (last.op = "finalize_sale" /\ last.result = "ok") =>
        presale.auction_status \notin {StatusSold, StatusUnsold}

\* the team rows after the sales of the requests in todo are served one after
\* another, in every order, from team rows tms
RECURSIVE SerialOutcomes(_, _)
SerialOutcomes(todo, tms) ==
    IF todo = {} THEN {tms}
    ELSE UNION {SerialOutcomes(todo \ {r},
                    LET req == requests[r] IN
                    IF BudgetExceeded(req.sold_price, tms[req.team_id])
                    THEN tms
                    ELSE [tms EXCEPT ![req.team_id] = Charge(@, req.sold_price)])
                : r \in todo}

\* C14: sale requests are mutually exclusive: once the concurrent finalize_sale
\* requests have all been served, the team rows are those of some serial order
\* of the requests (no increment lost, no two bids accepted against the same
\* stale max_bid).
C14_Serializable ==
    (\A r \in RequestIds : requests[r].pc = "done") =>
        teams \in SerialOutcomes(RequestIds, [t \in TeamIds |-> NewTeam])

\* C15: lifecycle: the auction status changes only from Not Started to Live by
\* start, from Paused to Live by start or resume, from Live to Paused by pause,
\* and from any status to Not Started by a reset; pause or resume applied in
\* Not Started does not change the status to Paused or Live.
C15_Lifecycle ==
    [][control'.status # control.status =>
          \/ /\ control.status = "Not Started" /\ control'.status = "Live"
             /\ last'.op = "start"
          \/ /\ control.status = "Paused" /\ control'.status = "Live"
             /\ last'.op \in {"start", "resume"}
          \/ /\ control.status = "Live" /\ control'.status = "Paused"
             /\ last'.op = "pause"
          \/ /\ control'.status = "Not Started"
             /\ last'.op = "reset_auction"]_vars

\* C16: a reset attempted with a confirmation secret other than RESET2026 fails
\* and leaves every team, every player and the auction control row unchanged.
C16_WrongSecret ==
    [][\A password \in Passwords :
          (/\ last'.op = "reset_auction"
           /\ password # "RESET2026"
           /\ reset_auction(password))
              => (Rows' = Rows /\ last'.result = "password")]_vars

C16_Witness ==
    /\ last.op = "reset_auction"
    /\ last.result = "password"
    /\ \E p \in PlayerIds : IsSold(p)
    /\ control.status = "Live"

\* C17: mark_unsold(p) for an existing player p leaves the spent_amount and
\* players_count of every team unchanged, and leaves the status, sold_price and
\* team of every Sold player other than p unchanged.
C17_MarkUnsoldFrame ==
    [][\A player_id \in PlayerIds :
          (last'.op = "mark_unsold" /\ mark_unsold(player_id)) =>
              /\ teams' = teams
              /\ \A q \in PlayerIds \ {player_id} :
                    IsSold(q) => players'[q] = players[q]]_vars

\* a player marked Unsold beside a Sold one, with round 2 reviving a player
C17_Witness ==
    /\ last.op = "mark_unsold"
    /\ last.result = "ok"
    /\ \E q \in PlayerIds : IsSold(q)
    /\ \E t \in TeamIds : teams[t].players_count > 0
    /\ control.current_player_id # None
    /\ players[control.current_player_id].auction_status = StatusApproved

\* C18: revert_unsold(p) on a player whose status is Unsold sets the status of
\* p to Approved and changes nothing else: no team row, no other player, no
\* other field of p, not the current player and not the auction status.
C18_RevertUnsoldFrame ==
    [][\A player_id \in PlayerIds :
          (/\ last'.op = "revert_unsold"
           /\ IsUnsold(player_id)
           /\ revert_unsold(player_id))
              => /\ players' = [players EXCEPT ![player_id].auction_status = StatusApproved]
                 /\ teams' = teams
                 /\ control' = control]_vars

C18_Witness ==
    /\ last.op = "revert_unsold"
    /\ last.result = "ok"
    /\ \E p \in PlayerIds : players[p].auction_status = StatusApproved
    /\ \E t \in TeamIds : teams[t].players_count > 0
    /\ control.current_player_id # None
    /\ control.status = "Live"

\* C19: selection returns none only when the auction is complete: whenever a
\* selection run by start, pick_random_player, mark_unsold or finalize_sale
\* ends with no current player, every player is Sold (no fresh player, the one
\* that was on display included, and no Unsold player is left).
C19_NoneOnlyWhenComplete ==
    (SelectionRan /\ control.current_player_id = None) =>
        \A p \in PlayerIds : IsSold(p)

\* the first category a role text belongs to, 0 when it belongs to none
MinCategory(role) ==
    LET hits == {k \in 1..Len(role_priority) : RoleMatch[role][k]}
    IN IF hits = {} THEN 0 ELSE CHOOSE k \in hits : \A j \in hits : k <= j

\* the step is a selection run, by pick_random_player, by start, by
\* mark_unsold(player_id) or by an accepted sale of player_id
SelectionStep(player_id) ==
    \/ last'.op = "pick_random_player"
    \/ last'.op = "start" /\ last'.result = "picked"
    \/ last'.op = "mark_unsold" /\ last'.result = "ok" /\ mark_unsold(player_id)
    \/ last'.op = "finalize_sale" /\ last'.result = "ok"
       /\ presale'.player_id = player_id

\* the player rows the selection of that step reads
SelectionRows(player_id) ==
    IF last'.op = "mark_unsold"
    THEN [players EXCEPT ![player_id].auction_status = StatusUnsold]
    ELSE IF last'.op = "finalize_sale"
    THEN [players EXCEPT ![player_id].auction_status = StatusSold]
    ELSE players

\* chosen comes from the fresh pool of rows pl, and every player of a category
\* before the first category of chosen is Sold or Unsold, those in exempt aside
RoleBalanced(pl, chosen, exempt) ==
    (chosen \in PlayerIds /\ ~IsClosed(pl[chosen])) =>
        \A q \in PlayerIds \ exempt, j \in 1..Len(role_priority) :
            (j < MinCategory(pl[chosen].role) /\ RoleMatch[pl[q].role][j])
                => IsClosed(pl[q])

\* C20: role-balanced progression: a player of a lower-priority category
\* becomes the current player through fresh-pool selection only in a state
\* where every player of each higher-priority category is Sold or Unsold, the
\* player on display included.
C20_RoleBalanced ==
    [][\A player_id \in PlayerIds :
          SelectionStep(player_id) =>
              RoleBalanced(SelectionRows(player_id), control'.current_player_id, {})]_vars

\* C20 as amended: a player of a lower-priority category becomes the current
\* player through fresh-pool selection only in a state where every player of
\* each higher-priority category is Sold, Unsold or the player that was on
\* display when the selection ran.
C20_RoleBalancedButShown ==
    [][\A player_id \in PlayerIds :
          SelectionStep(player_id) =>
              RoleBalanced(SelectionRows(player_id), control'.current_player_id,
                           {control.current_player_id})]_vars

\* a fresh player of a later category on display after a selection, with a
\* player of the first category Sold and another one still fresh
C20_Witness ==
    /\ SelectionRan
    /\ control.current_player_id # None
    /\ players[control.current_player_id].auction_status = StatusUpcoming
    /\ MinCategory(players[control.current_player_id].role) > 1
    /\ \E q \in PlayerIds : IsSold(q) /\ MinCategory(players[q].role) = 1
    /\ \E q \in PlayerIds : ~IsClosed(players[q]) /\ MinCategory(players[q].role) = 1

\* C21: start runs the selection only when the current-player slot is empty or
\* vacated: applied while the current player is neither Sold nor Unsold (start
\* from Paused, a repeated start), start leaves the current player unchanged.
C21_StartKeepsPlayer ==
    [][(/\ last'.op = "start"
        /\ control.current_player_id # None
        /\ ~IsClosed(players[control.current_player_id]))
          => control'.current_player_id = control.current_player_id]_vars

\* the players a step revives: Unsold in the rows pl the selection reads,
\* Approved afterwards
Revived(pl) ==
    {q \in PlayerIds : /\ StatusKey[pl[q].auction_status] = KeyUnsold
                       /\ players'[q].auction_status = StatusApproved}

\* C22: revival happens only on an exhausted fresh pool: a selection changes
\* the status of an Unsold player to Approved only when no category has a
\* fresh candidate; it revives exactly one player, and that player is the one
\* stored as current player.
C22_RevivalOnlyWhenExhausted ==
    [][\A player_id \in PlayerIds :
          (SelectionStep(player_id) /\ Revived(SelectionRows(player_id)) # {}) =>
              /\ \A k \in 1..Len(role_priority) :
                    PickCandidates(SelectionRows(player_id), k,
                                   control.current_player_id) = {}
              /\ Cardinality(Revived(SelectionRows(player_id))) = 1
              /\ control'.current_player_id \in Revived(SelectionRows(player_id))]_vars

\* a revived player on display while another player is still Unsold
C22_Witness ==
    /\ SelectionRan
    /\ control.current_player_id # None
    /\ players[control.current_player_id].auction_status = StatusApproved
    /\ \E q \in PlayerIds : IsUnsold(q)

\* C23: the next player chosen after an accepted finalize_sale is one that
\* pick_random_player (fresh candidates without the displayed player, by role
\* priority, else a revived Unsold player) could choose from the same post-sale
\* rows and displayed-player id, also when the sold player is not the one on
\* display.
C23_SaleSelectsAsPick ==
    [][(last'.op = "finalize_sale" /\ last'.result = "ok") =>
          PickBody([players EXCEPT ![presale'.player_id] = players'[presale'.player_id]],
                   control, players', control')]_vars

\* C24: finalize_sale, mark_unsold, revert_last_sale and revert_unsold never
\* change the auction status; an accepted finalize_sale that finds no next
\* player leaves no current player and the status it found (Live stays Live).
C24_StatusKept ==
    [][last'.op \in {"finalize_sale", "mark_unsold", "revert_last_sale", "revert_unsold"}
          => control'.status = control.status]_vars

C24_Witness ==
    /\ last.op = "finalize_sale"
    /\ last.result = "ok"
    /\ control.current_player_id = None
    /\ control.status = "Live"

\* C25: pause and resume change only the auction status: the current player,
\* every player row and every team row are unchanged by them, and neither runs
\* the selection.
C25_PauseResumeFrame ==
    [][last'.op \in {"pause", "resume"} =>
          /\ control'.current_player_id = control.current_player_id
          /\ players' = players
          /\ teams' = teams]_vars

\* a resumed auction with a player on display, a Sold and an Unsold player
C25_Witness ==
    /\ last.op = "resume"
    /\ control.status = "Live"
    /\ control.current_player_id # None
    /\ \E p \in PlayerIds : IsSold(p)
    /\ \E p \in PlayerIds : IsUnsold(p)

\* C26: rejected calls are no-ops: finalize_sale with an unknown player or team
\* id, mark_unsold with an unknown player id, revert_last_sale on a player that
\* is unknown or not Sold and revert_unsold on a player that is unknown or not
\* Unsold leave every player row, every team row and the control row unchanged
\* (a step that changes a row is none of these calls).
C26_RejectedNoOp ==
    [][Rows' # Rows =>
          /\ last'.op = "finalize_sale" =>
                \A player_id \in ArgPlayerIds, team_id \in TeamIds \cup {UnknownTeam},
                   raw \in PriceFields :
                    (player_id \notin PlayerIds \/ team_id \notin TeamIds)
                        => ~finalize_sale(player_id, team_id, raw)
          /\ last'.op = "mark_unsold" =>
                \A player_id \in ArgPlayerIds :
                    player_id \notin PlayerIds => ~mark_unsold(player_id)
          /\ last'.op = "revert_last_sale" =>
                \A player_id \in ArgPlayerIds :
                    (player_id \notin PlayerIds \/ ~IsSold(player_id))
                        => ~revert_last_sale(player_id)
          /\ last'.op = "revert_unsold" =>
                \A player_id \in ArgPlayerIds :
                    (player_id \notin PlayerIds \/ ~IsUnsold(player_id))
                        => ~revert_unsold(player_id)]_vars

\* a revert refused (the player is not Sold or unknown) in the middle of an
\* auction: a player is Unsold, another Sold, and one is on display
C26_Witness ==
    /\ last.op = "revert_last_sale"
    /\ last.result = "rejected"
    /\ \E p \in PlayerIds : IsUnsold(p)
    /\ \E p \in PlayerIds : IsSold(p)
    /\ control.current_player_id # None

\* C27: reserve invariant: starting from teams with nothing spent, no player
\* and a purse of at least 3000, after any sequence of sales at non-negative
\* bids, reverts and resets every team with slots_left >= 0 has
\* purse_rem >= 200 * slots_left: it can still fill every slot left at the
\* base price.
C27_Reserve ==
    \A t \in TeamIds :
        slots_left(teams[t]) >= 0 =>
            purse_rem(teams[t]) >= BasePrice * slots_left(teams[t])

\* C28: the displayed player is always biddable: after every completed
\* operation (mark_unsold together with the selection it triggers) there is no
\* current player or the current player is neither Sold nor Unsold.
C28_DisplayedBiddable ==
    control.current_player_id # None =>
        /\ ~IsSold(control.current_player_id)
        /\ ~IsUnsold(control.current_player_id)

\* a player marked Unsold while on display, another player shown in its place
C28_Witness ==
    /\ last.op = "mark_unsold"
    /\ last.result = "ok"
    /\ control.current_player_id # None
    /\ \E p \in PlayerIds : IsUnsold(p)
    /\ \E p \in PlayerIds : IsSold(p)

\* the players bought, counted on the team rows tms
RECURSIVE CountBought(_, _)
CountBought(tms, t) ==
    IF t = 0 THEN 0 ELSE tms[t].players_count + CountBought(tms, t - 1)

\* C29: sale-only runs terminate: in a run that begins with start on N fresh
\* players with a role in one of the four categories and then only sells the
\* displayed player, each sale puts a different, not yet Sold player on
\* display, and after exactly N sales there is no current player and every
\* player is Sold.
C29_SaleOnlyTerminates ==
    [][LET sales == CountBought(teams', NumTeams)
           shown == control'.current_player_id
       IN /\ sales <= NumPlayers
          /\ Cardinality({p \in PlayerIds : players'[p].auction_status = StatusSold}) = sales
          /\ sales < NumPlayers =>
                /\ shown # None
                /\ shown # control.current_player_id
                /\ players'[shown].auction_status # StatusSold
          /\ sales = NumPlayers =>
                /\ shown = None
                /\ \A p \in PlayerIds : players'[p].auction_status = StatusSold]_vars

\* the end of such a run, with players bought by each team
C29_Witness ==
    /\ last.op = "finalize_sale"
    /\ CountBought(teams, NumTeams) = NumPlayers
    /\ \A t \in TeamIds : teams[t].players_count > 0
    /\ \A p \in PlayerIds : IsSold(p)
    /\ control.current_player_id = None

\* C30: marking Unsold cannot end the auction: when mark_unsold(p) is applied
\* in a state where no other player is fresh, the selection it triggers
\* revives an Unsold player, so there is a current player afterwards; if p is
\* the only player that is not Sold, p itself is revived (Approved, not Unsold)
\* and is the current player again.
C30_UnsoldCannotEnd ==
    [][last'.op = "mark_unsold" =>
          \A player_id \in PlayerIds :
              (/\ \A q \in PlayerIds \ {player_id} : IsClosed(players[q])
               /\ mark_unsold(player_id))
                  => /\ control'.current_player_id # None
                     /\ players'[control'.current_player_id].auction_status = StatusApproved
                     /\ (\A q \in PlayerIds \ {player_id} : IsSold(q)) =>
                            /\ control'.current_player_id = player_id
                            /\ players'[player_id].auction_status = StatusApproved]_vars

\* the last player that is not Sold, marked Unsold and on display again
C30_Witness ==
    /\ last.op = "mark_unsold"
    /\ last.result = "ok"
    /\ control.current_player_id # None
    /\ players[control.current_player_id].auction_status = StatusApproved
    /\ \A q \in PlayerIds \ {control.current_player_id} : IsSold(q)

====
